---- MODULE Spec2Model ----
(***************************************************************************)
(* Model of _templates/lint-markdown.py: the MarkdownLinter class (four    *)
(* line-scanning rules appending to self.errors) and main(), which lints   *)
(* each named file in turn and derives the process exit status.            *)
(*                                                                         *)
(* A character is its Unicode code point, a line is a sequence of code     *)
(* points, a document is a sequence of lines.  Regular expressions and     *)
(* str methods are modelled by what they accept, character by character.   *)
(***************************************************************************)
EXTENDS Integers, Sequences, FiniteSets

\* ------------------------------------------------------------------------
\* Code points named by the source's patterns and literals
\* ------------------------------------------------------------------------
RPAREN == 41
STAR == 42
PLUS == 43
DASH == 45
DOT == 46
COLON == 58
BACKSLASH == 92
BACKTICK == 96
PIPE == 124
ASCII_MAX == 127
CHECK_BUTTON == 9989
CHECK_MARK == 10003
BOX_VERT_RIGHT == 9500
BOX_VERT == 9474
BOX_UP_RIGHT == 9492
ARROW_RIGHT == 8594
ARROW_LEFT == 8592
SLICE_LEN == 50

\* ------------------------------------------------------------------------
\* Character classes of Python's re module on str, and of str.strip()
\* ------------------------------------------------------------------------
\* \s and str.isspace(): the Unicode whitespace characters.
IsSpace(c) ==
    \/ c \in {9, 10, 11, 12, 13, 28, 29, 30, 31, 32, 133, 160, 5760}
    \/ c \in 8192..8202
    \/ c \in {8232, 8233, 8239, 8287, 12288}

\* \d: decimal digits; the ASCII digits and the Arabic-Indic block (the other
\* blocks of Unicode category Nd do not occur in the sample lines).
IsDigit(c) == c \in 48..57 \/ c \in 1632..1641

\* \w: word characters; ASCII letters, digits, underscore and the Latin-1
\* letters (the other Unicode letters do not occur in the sample lines).
IsWord(c) ==
    \/ c \in 65..90 \/ c \in 97..122 \/ c = 95
    \/ IsDigit(c)
    \/ (c \in 192..255 /\ c \notin {215, 247})

\* ------------------------------------------------------------------------
\* str helpers
\* ------------------------------------------------------------------------
Min(a, b) == IF a <= b THEN a ELSE b

\* Number of leading whitespace characters of s.
LeadWs(s) ==
    CHOOSE k \in 0..Len(s) :
        /\ \A j \in 1..k : IsSpace(s[j])
        /\ (k = Len(s) \/ ~IsSpace(s[k + 1]))

\* Number of trailing whitespace characters of s.
TrailWs(s) ==
    CHOOSE k \in 0..Len(s) :
        /\ \A j \in (Len(s) - k + 1)..Len(s) : IsSpace(s[j])
        /\ (k = Len(s) \/ ~IsSpace(s[Len(s) - k]))

lstrip(s) == SubSeq(s, LeadWs(s) + 1, Len(s))
rstrip(s) == SubSeq(s, 1, Len(s) - TrailWs(s))
strip(s) == rstrip(lstrip(s))

startswith(s, p) == Len(s) >= Len(p) /\ SubSeq(s, 1, Len(p)) = p
endswith(s, p) == Len(s) >= Len(p) /\ SubSeq(s, Len(s) - Len(p) + 1, Len(s)) = p

\* line[:50]
Slice(s) == SubSeq(s, 1, Min(SLICE_LEN, Len(s)))

FENCE == <<BACKTICK, BACKTICK, BACKTICK>>

\* str.splitlines(): the line boundaries of Python, CR LF counting as one;
\* no empty last line after a final boundary.
IsLineBreak(c) == c \in {10, 11, 12, 13, 28, 29, 30, 133, 8232, 8233}

RECURSIVE SplitFrom(_, _, _, _)
SplitFrom(text, k, cur, acc) ==
    IF k > Len(text)
    THEN IF cur = <<>> THEN acc ELSE Append(acc, cur)
    ELSE IF IsLineBreak(text[k])
         THEN IF text[k] = 13 /\ k < Len(text) /\ text[k + 1] = 10
              THEN SplitFrom(text, k + 2, <<>>, Append(acc, cur))
              ELSE SplitFrom(text, k + 1, <<>>, Append(acc, cur))
         ELSE SplitFrom(text, k + 1, Append(cur, text[k]), acc)

splitlines(text) == SplitFrom(text, 1, <<>>, <<>>)

\* ------------------------------------------------------------------------
\* The regular expressions of the rules
\* ------------------------------------------------------------------------
\* re.match(r'^\s*[-*+]\s', line)
MatchBullet(line) ==
    LET k == LeadWs(line)
    IN  /\ Len(line) >= k + 2
        /\ line[k + 1] \in {DASH, STAR, PLUS}
        /\ IsSpace(line[k + 2])

\* Length of the run of digits of s that starts at position p.
DigitRun(s, p) ==
    CHOOSE n \in 0..(Len(s) - p + 1) :
        /\ \A j \in p..(p + n - 1) : IsDigit(s[j])
        /\ (p + n > Len(s) \/ ~IsDigit(s[p + n]))

\* re.match(r'^\s*\d+[.)]\s', line)
MatchOrdered(line) ==
    LET k == LeadWs(line)
        n == IF k < Len(line) THEN DigitRun(line, k + 1) ELSE 0
    IN  /\ n >= 1
        /\ Len(line) >= k + n + 2
        /\ line[k + n + 1] \in {DOT, RPAREN}
        /\ IsSpace(line[k + n + 2])

\* The class [-*+\d] with the digit alternative left out.
MatchListLeadNoDigit(prev_line) ==
    LET k == LeadWs(prev_line)
    IN  Len(prev_line) >= k + 1 /\ prev_line[k + 1] \in {DASH, STAR, PLUS}

\* re.match(r'^\s*[-*+\d]', prev_line)
MatchListLead(prev_line) ==
    LET k == LeadWs(prev_line)
    IN  /\ Len(prev_line) >= k + 1
        /\ (prev_line[k + 1] \in {DASH, STAR, PLUS} \/ IsDigit(prev_line[k + 1]))

\* re.match(r'^\s*\|', line)
MatchTableRow(line) ==
    LET k == LeadWs(line)
    IN  Len(line) >= k + 1 /\ line[k + 1] = PIPE

\* Length of the run of characters other than '*' of s that starts at p.
NonStarRun(s, p) ==
    CHOOSE n \in 0..(Len(s) - p + 1) :
        /\ \A j \in p..(p + n - 1) : s[j] # STAR
        /\ (p + n > Len(s) \/ s[p + n] = STAR)

\* re.match(r'^\*\*[^*]+\*\*:?\s*$', stripped)
MatchBoldOnly(stripped) ==
    /\ startswith(stripped, <<STAR, STAR>>)
    /\ LET n == NonStarRun(stripped, 3)
           rest == SubSeq(stripped, 3 + n, Len(stripped))
       IN  /\ n >= 1
           /\ startswith(rest, <<STAR, STAR>>)
           /\ LET tail == SubSeq(rest, 3, Len(rest))
                  after == IF tail # <<>> /\ tail[1] = COLON
                           THEN SubSeq(tail, 2, Len(tail)) ELSE tail
              IN  \A j \in 1..Len(after) : IsSpace(after[j])

\* re.match(r'^[-*+\d]', next_line)
MatchListStart(next_line) ==
    /\ next_line # <<>>
    /\ (next_line[1] \in {DASH, STAR, PLUS} \/ IsDigit(next_line[1]))

\* lang_match = re.match(r'^```(\w+)', stripped); group(1) or None (<<>>).
LangOf(stripped) ==
    LET n == CHOOSE m \in 0..(Len(stripped) - 3) :
                 /\ \A j \in 4..(3 + m) : IsWord(stripped[j])
                 /\ (3 + m = Len(stripped) \/ ~IsWord(stripped[4 + m]))
    IN  SubSeq(stripped, 4, 3 + n)

\* ------------------------------------------------------------------------
\* Diagnostics: the tuples (line number, message) of self.errors.  A message
\* is kept as the parts its f-string is formatted from.
\* ------------------------------------------------------------------------
Message(rule, n, desc, text) == [rule |-> rule, line |-> n, desc |-> desc, text |-> text]
Error(n, message) == [line |-> n, message |-> message]
NoMessage == Message("", 0, "", <<>>)

\* self.errors.append(...), reading the list with the element put first.
PrependError(errs, e) == <<e>> \o errs

\* self.errors.append(...)
AppendError(errs, e) == Append(errs, e)

\* ------------------------------------------------------------------------
\* check_blank_line_before_lists
\* ------------------------------------------------------------------------
\* The body of the loop for line n (1-indexed): TRUE when an error is appended.
ListRuleFires(ls, n) ==
    /\ (MatchBullet(ls[n]) \/ MatchOrdered(ls[n]))
    /\ n > 1
    /\ LET prev_line == ls[n - 1]
       IN  /\ strip(prev_line) # <<>>
           /\ ~MatchListLead(prev_line)
           /\ ~endswith(rstrip(prev_line), <<BACKSLASH>>)

RECURSIVE ScanLists(_, _, _)
ScanLists(ls, n, errs) ==
    IF n > Len(ls) THEN errs
    ELSE ScanLists(ls, n + 1,
             IF ListRuleFires(ls, n)
             THEN AppendError(errs, Error(n, Message("list", n, "", Slice(ls[n]))))
             ELSE errs)

check_blank_line_before_lists(ls, errs) == ScanLists(ls, 1, errs)

\* ------------------------------------------------------------------------
\* check_blank_line_before_tables
\* ------------------------------------------------------------------------
\* The fence allowance switched off.
PrevIsFenceNever(prev_line) == FALSE

\* prev_line.strip().startswith('```')
PrevIsFence(prev_line) == startswith(strip(prev_line), FENCE)

\* The continuation allowance switched off.
PrevEndsWithBackslashNever(prev_line) == FALSE

\* prev_line.rstrip().endswith('\\')
PrevEndsWithBackslash(prev_line) == endswith(rstrip(prev_line), <<BACKSLASH>>)

TableRuleFires(ls, n) ==
    /\ MatchTableRow(ls[n])
    /\ n > 1
    /\ LET prev_line == ls[n - 1]
       IN  /\ strip(prev_line) # <<>>
           /\ ~MatchTableRow(prev_line)
           /\ ~PrevEndsWithBackslash(prev_line)
           /\ ~PrevIsFence(prev_line)

RECURSIVE ScanTables(_, _, _)
ScanTables(ls, n, errs) ==
    IF n > Len(ls) THEN errs
    ELSE ScanTables(ls, n + 1,
             IF TableRuleFires(ls, n)
             THEN AppendError(errs, Error(n, Message("table", n, "", Slice(ls[n]))))
             ELSE errs)

check_blank_line_before_tables(ls, errs) == ScanTables(ls, 1, errs)

\* ------------------------------------------------------------------------
\* check_proper_headers
\* ------------------------------------------------------------------------
\* The condition on the next line without the table-row exclusion.
NextLineTriggersNoTable(next_line) ==
    /\ next_line # <<>>
    /\ (MatchListStart(next_line) \/ ~startswith(next_line, FENCE))

\* next_line and (re.match(r'^[-*+\d]', next_line) or
\*     (not next_line.startswith('```') and not next_line.startswith('|')))
NextLineTriggers(next_line) ==
    /\ next_line # <<>>
    /\ \/ MatchListStart(next_line)
       \/ (~startswith(next_line, FENCE) /\ ~startswith(next_line, <<PIPE>>))

HeaderRuleFires(ls, n) ==
    /\ MatchBoldOnly(strip(ls[n]))
    /\ n < Len(ls)
    /\ NextLineTriggers(strip(ls[n + 1]))

RECURSIVE ScanHeaders(_, _, _)
ScanHeaders(ls, n, errs) ==
    IF n > Len(ls) THEN errs
    ELSE ScanHeaders(ls, n + 1,
             IF HeaderRuleFires(ls, n)
             THEN AppendError(errs, Error(n, Message("header", n, "", strip(ls[n]))))
             ELSE errs)

check_proper_headers(ls, errs) == ScanHeaders(ls, 1, errs)

\* ------------------------------------------------------------------------
\* check_unicode_in_code_blocks, one loop iteration at a time
\* ------------------------------------------------------------------------
\* A pattern is a character class: the set of its characters, or (chars
\* empty, nonascii TRUE) the class [^\x00-\x7F].
CHECKMARKS == {CHECK_BUTTON, CHECK_MARK}
BOXES == {BOX_VERT_RIGHT, BOX_VERT, BOX_UP_RIGHT}
ARROWS == {ARROW_RIGHT, ARROW_LEFT}
Pattern(chars, nonascii, desc) == [chars |-> chars, nonascii |-> nonascii, desc |-> desc]

\* The pattern list with the catch-all class tried first.
unicode_patterns_catch_all_first ==
    << Pattern({}, TRUE, "Unicode character"),
       Pattern(CHECKMARKS, FALSE, "checkmark"),
       Pattern(BOXES, FALSE, "box-drawing"),
       Pattern(ARROWS, FALSE, "arrow") >>

unicode_patterns ==
    << Pattern(CHECKMARKS, FALSE, "checkmark"),
       Pattern(BOXES, FALSE, "box-drawing"),
       Pattern(ARROWS, FALSE, "arrow"),
       Pattern({}, TRUE, "Unicode character") >>

\* re.search(pattern, line)
Search(pattern, line) ==
    \E j \in 1..Len(line) :
        IF pattern.nonascii THEN line[j] > ASCII_MAX ELSE line[j] \in pattern.chars

\* for pattern, desc in unicode_patterns: ... break -- the index of the first
\* pattern found in the line, 0 when the loop ends without a match.
FirstPattern(line) ==
    IF \E k \in 1..Len(unicode_patterns) : Search(unicode_patterns[k], line)
    THEN CHOOSE k \in 1..Len(unicode_patterns) :
             /\ Search(unicode_patterns[k], line)
             /\ \A m \in 1..(k - 1) : ~Search(unicode_patterns[m], line)
    ELSE 0

\* The state before the first line, taken over from the previous scan.
InitialFenceStateKept(prev) == prev

\* in_code_block = False before the loop, whatever an earlier scan left.
InitialFenceState(prev) == FALSE

\* A fence line that opens a block and never closes one.
ToggleOpensOnly(in_block) == TRUE

\* if in_code_block: in_code_block = False  else: in_code_block = True
Toggle(in_block) == IF in_block THEN FALSE ELSE TRUE

\* stripped.startswith('```')
IsFenceLine(line) == startswith(strip(line), FENCE)

\* The errors after the iteration for line n, which is not a fence line.
ScanLine(ls, n, in_block, errs) ==
    IF in_block /\ FirstPattern(ls[n]) # 0
    THEN AppendError(errs,
             Error(n, Message("code", n, unicode_patterns[FirstPattern(ls[n])].desc,
                              Slice(ls[n]))))
    ELSE errs

\* ------------------------------------------------------------------------
\* MarkdownLinter.__init__, lint, and main
\* ------------------------------------------------------------------------
\* An error list shared by all instances.
InitErrorsShared(prev) == prev

\* self.errors = []: every instance starts with its own empty list.
InitErrors(prev) == <<>>

\* return len(self.errors) == 0
LintPassed(errs) == Len(errs) = 0

\* sys.exit(0 if all_passed else 1)
ExitCode(passed) == IF passed THEN 0 ELSE 1

\* A missing file that ends the loop (break): the index past the last file.
AfterMissingBreak(k, n) == n + 1

\* continue: the loop goes on with the next file.
AfterMissing(k, n) == k + 1

\* ------------------------------------------------------------------------
\* Sample lines
\* ------------------------------------------------------------------------
L_EMPTY == <<>>                                 \* ""
L_BLANK == <<32, 9>>                            \* " \t"
L_TEXT == <<97, 98>>                            \* "ab"
L_TAB_TEXT == <<97, 9, 98>>                     \* "a\tb"
L_BULLET == <<45, 32, 97>>                      \* "- a"
L_STAR_IN == <<32, 42, 9, 97>>                  \* " *\ta"
L_ORDERED == <<49, 50, 46, 32, 97>>             \* "12. a"
L_PAREN == <<49, 41, 32, 97>>                   \* "1) a"
L_DIGIT == <<49, 97>>                           \* "1a"
L_DASH_WORD == <<45, 97>>                       \* "-a"
L_CONT == <<97, 92, 32>>                        \* "a\ "
L_ROW == <<124, 32, 97, 32, 124>>               \* "| a |"
L_ROW_IN == <<32, 124, 97>>                     \* " |a"
L_FENCE == <<96, 96, 96>>                       \* "```"
L_FENCE_LANG == <<32, 96, 96, 96, 112, 121>>    \* " ```py"
L_FENCE_TICK == <<96, 96, 96, 10003>>           \* "```" and a check mark
L_BOLD == <<42, 42, 83, 42, 42>>                \* "**S**"
L_BOLD_COLON == <<32, 42, 42, 83, 32, 97, 42, 42, 58>>  \* " **S a**:"
L_BOLD_MORE == <<42, 42, 83, 42, 42, 32, 97>>   \* "**S** a"
L_CHECK == <<10003, 32, 97>>                    \* check mark, " a"
L_ARROW_CHECK == <<8594, 9989, 233>>            \* arrow, check button, e acute
L_BOX_ARROW == <<97, 8592, 9492>>               \* "a", left arrow, box corner
L_BOX == <<9474>>                               \* box vertical
L_ARROW == <<8594, 8594>>                       \* two right arrows
L_CAFE == <<99, 97, 102, 233>>                  \* "caf" and e acute

\* Every sample line, for documents of up to MaxPairLines lines.
LinePool ==
    { L_EMPTY, L_BLANK, L_TEXT, L_TAB_TEXT, L_BULLET, L_STAR_IN, L_ORDERED,
      L_PAREN, L_DIGIT, L_DASH_WORD, L_CONT, L_ROW, L_ROW_IN, L_FENCE,
      L_FENCE_LANG, L_FENCE_TICK, L_BOLD, L_BOLD_COLON, L_BOLD_MORE, L_CHECK,
      L_ARROW_CHECK, L_BOX_ARROW, L_BOX, L_ARROW, L_CAFE }

\* The lines of fenced documents, for documents of up to MaxFenceLines lines.
FencePool == { L_FENCE, L_CAFE, L_ROW, L_TEXT, L_BOLD, L_BULLET }

MaxPairLines == 2
MaxFenceLines == 4
MaxFiles == 2

SeqsUpTo(S, n) == UNION { [1..m -> S] : m \in 0..n }

Docs == SeqsUpTo(LinePool, MaxPairLines) \cup SeqsUpTo(FencePool, MaxFenceLines)

\* The documents of the runs over several files.
MainDocs ==
    { <<>>, <<L_CAFE>>, <<L_FENCE, L_CAFE>>, <<L_FENCE, L_CHECK, L_FENCE>>,
      <<L_TEXT, L_BULLET>>, <<L_FENCE>> }

\* The text of a file whose lines are doc, each line ended by "\n".
RECURSIVE JoinLines(_)
JoinLines(doc) ==
    IF doc = <<>> THEN <<>>
    ELSE Head(doc) \o <<10>> \o JoinLines(Tail(doc))

\* What the file system holds at a path: no file, or a file and its text.
NoFile == [exists |-> FALSE, text |-> <<>>]
FileOf(doc) == [exists |-> TRUE, text |-> JoinLines(doc)]

\* ------------------------------------------------------------------------
\* State
\* ------------------------------------------------------------------------
VARIABLES
    files,            \* sys.argv[1:], each path as what the file system holds there
    pc,               \* position in main
    idx,              \* 1-based position of file_path in files
    all_passed,       \* main's all_passed
    lines,            \* linter.lines
    errors,           \* linter.errors
    i,                \* line number of check_unicode_in_code_blocks' loop
    in_code_block,    \* its local in_code_block
    code_block_lang,  \* its local code_block_lang (<<>> is None)
    stdout,           \* lines printed to sys.stdout
    stderr,           \* lines printed to sys.stderr
    status            \* exit status, -1 while running

vars == << files, pc, idx, all_passed, lines, errors, i, in_code_block,
           code_block_lang, stdout, stderr, status >>

linter == << lines, errors >>
scan == << i, in_code_block, code_block_lang >>

\* A printed line: its kind, the position in files of the path it is about or
\* of the linter that printed it, a number and a message where it has them.
Printed(kind, k, n, message) == [kind |-> kind, file |-> k, n |-> n, message |-> message]

InitWith(argvs) ==
    /\ files \in argvs
    /\ pc = "start"
    /\ idx = 0
    /\ all_passed = TRUE
    /\ lines = <<>>
    /\ errors = <<>>
    /\ i = 0
    /\ in_code_block = FALSE
    /\ code_block_lang = <<>>
    /\ stdout = <<>>
    /\ stderr = <<>>
    /\ status = -1

\* Runs over at most one path, over every sample document.
Init == InitWith({<<>>, <<NoFile>>} \cup { <<FileOf(d)>> : d \in Docs })

\* A file with other line boundaries and no final one:
\* "```" CR LF "caf" e-acute FF "ab".
RawFile == [exists |-> TRUE,
            text |-> <<96, 96, 96, 13, 10, 99, 97, 102, 233, 12, 97, 98>>]

\* Runs over up to MaxFiles paths.
InitMain ==
    InitWith(SeqsUpTo({NoFile, RawFile} \cup { FileOf(d) : d \in MainDocs }, MaxFiles))

\* ------------------------------------------------------------------------
\* main
\* ------------------------------------------------------------------------
\* if len(sys.argv) < 2: print usage; sys.exit(1)
Usage ==
    /\ pc = "start"
    /\ Len(files) = 0
    /\ stderr' = Append(stderr, Printed("usage", 0, 0, NoMessage))
    /\ status' = 1
    /\ pc' = "exit"
    /\ UNCHANGED << files, idx, all_passed, linter, scan, stdout >>

\* files = [...]; all_passed = True; the loop starts at the first file
Begin ==
    /\ pc = "start"
    /\ Len(files) >= 1
    /\ all_passed' = TRUE
    /\ idx' = 1
    /\ pc' = "loop"
    /\ UNCHANGED << files, linter, scan, stdout, stderr, status >>

\* if not file_path.exists(): print; all_passed = False; continue
FileNotFound ==
    /\ pc = "loop"
    /\ idx <= Len(files)
    /\ ~files[idx].exists
    /\ stderr' = Append(stderr, Printed("not_found", idx, 0, NoMessage))
    /\ all_passed' = FALSE
    /\ idx' = AfterMissing(idx, Len(files))
    /\ UNCHANGED << files, pc, linter, scan, stdout, status >>

\* linter = MarkdownLinter(file_path)
Construct ==
    /\ pc = "loop"
    /\ idx <= Len(files)
    /\ files[idx].exists
    /\ errors' = InitErrors(errors)
    /\ lines' = splitlines(files[idx].text)
    /\ pc' = "lists"
    /\ UNCHANGED << files, idx, all_passed, scan, stdout, stderr, status >>

\* linter.lint(): self.check_blank_line_before_lists()
CheckLists ==
    /\ pc = "lists"
    /\ errors' = check_blank_line_before_lists(lines, errors)
    /\ pc' = "tables"
    /\ UNCHANGED << files, idx, all_passed, lines, scan, stdout, stderr, status >>

\* self.check_blank_line_before_tables()
CheckTables ==
    /\ pc = "tables"
    /\ errors' = check_blank_line_before_tables(lines, errors)
    /\ pc' = "headers"
    /\ UNCHANGED << files, idx, all_passed, lines, scan, stdout, stderr, status >>

\* self.check_proper_headers()
CheckHeaders ==
    /\ pc = "headers"
    /\ errors' = check_proper_headers(lines, errors)
    /\ pc' = "unicode_begin"
    /\ UNCHANGED << files, idx, all_passed, lines, scan, stdout, stderr, status >>

\* self.check_unicode_in_code_blocks(): the locals before the loop
UnicodeBegin ==
    /\ pc = "unicode_begin"
    /\ in_code_block' = InitialFenceState(in_code_block)
    /\ code_block_lang' = <<>>
    /\ i' = 1
    /\ pc' = "unicode"
    /\ UNCHANGED << files, idx, all_passed, linter, stdout, stderr, status >>

\* One iteration on a fence line: toggle, record or clear the language, continue
UnicodeFence ==
    /\ pc = "unicode"
    /\ i <= Len(lines)
    /\ IsFenceLine(lines[i])
    /\ in_code_block' = Toggle(in_code_block)
    /\ code_block_lang' = IF in_code_block THEN <<>> ELSE LangOf(strip(lines[i]))
    /\ i' = i + 1
    /\ UNCHANGED << files, pc, idx, all_passed, linter, stdout, stderr, status >>

\* One iteration on any other line: scanned when inside a code block
UnicodeScan ==
    /\ pc = "unicode"
    /\ i <= Len(lines)
    /\ ~IsFenceLine(lines[i])
    /\ errors' = ScanLine(lines, i, in_code_block, errors)
    /\ i' = i + 1
    /\ UNCHANGED << files, pc, idx, all_passed, lines, in_code_block,
                    code_block_lang, stdout, stderr, status >>

\* linter.print_errors(): what it appends to sys.stderr
RECURSIVE DiagLines(_, _, _)
DiagLines(errs, k, n) ==
    IF n > Len(errs) THEN <<>>
    ELSE <<Printed("diag", k, errs[n].line, errs[n].message)>> \o DiagLines(errs, k, n + 1)

PrintedErrors(errs, k) ==
    IF errs # <<>>
    THEN <<Printed("banner", k, 0, NoMessage)>> \o DiagLines(errs, k, 1)
         \o <<Printed("count", k, Len(errs), NoMessage)>>
    ELSE <<>>

\* ... and to sys.stdout
PrintedSuccess(errs, k) ==
    IF errs # <<>> THEN <<>> ELSE <<Printed("ok", k, 0, NoMessage)>>

\* The loop of the last rule is over: lint() returns; if not linter.lint():
\* all_passed = False; linter.print_errors(); next file
Report ==
    /\ pc = "unicode"
    /\ i > Len(lines)
    /\ all_passed' = (all_passed /\ LintPassed(errors))
    /\ stderr' = stderr \o PrintedErrors(errors, idx)
    /\ stdout' = stdout \o PrintedSuccess(errors, idx)
    /\ idx' = idx + 1
    /\ pc' = "loop"
    /\ UNCHANGED << files, linter, scan, status >>

\* sys.exit(0 if all_passed else 1)
Exit ==
    /\ pc = "loop"
    /\ idx > Len(files)
    /\ status' = ExitCode(all_passed)
    /\ pc' = "exit"
    /\ UNCHANGED << files, idx, all_passed, linter, scan, stdout, stderr >>

Next ==
    \/ Usage
    \/ Begin
    \/ FileNotFound
    \/ Construct
    \/ CheckLists
    \/ CheckTables
    \/ CheckHeaders
    \/ UnicodeBegin
    \/ UnicodeFence
    \/ UnicodeScan
    \/ Report
    \/ Exit

Spec == Init /\ [][Next]_vars
SpecMain == InitMain /\ [][Next]_vars

\* ------------------------------------------------------------------------
\* lint() on a freshly constructed linter, as a function of its lines
\* ------------------------------------------------------------------------
RECURSIVE ScanUnicode(_, _, _, _)
ScanUnicode(ls, n, in_block, errs) ==
    IF n > Len(ls) THEN errs
    ELSE IF IsFenceLine(ls[n])
         THEN ScanUnicode(ls, n + 1, Toggle(in_block), errs)
         ELSE ScanUnicode(ls, n + 1, in_block, ScanLine(ls, n, in_block, errs))

LintAlone(ls) ==
    ScanUnicode(ls, 1, FALSE,
        check_proper_headers(ls,
            check_blank_line_before_tables(ls,
                check_blank_line_before_lists(ls, <<>>))))

\* ------------------------------------------------------------------------
\* Vocabulary of the properties
\* ------------------------------------------------------------------------
\* lint() has run all four rules on the current file; errors is final.
LintDone == pc = "unicode" /\ i > Len(lines)

\* The errors of one rule, in list order.
ErrorsOf(rule) ==
    LET OfRule(e) == e.message.rule = rule
    IN  SelectSeq(errors, OfRule)

\* How many errors of a rule carry line number n.
CountAt(rule, n) ==
    Cardinality({ a \in 1..Len(errors) :
                    errors[a].message.rule = rule /\ errors[a].line = n })

\* Every error is numbered with a line of the document, in both places.
WellNumbered ==
    \A a \in 1..Len(errors) :
        /\ errors[a].line \in 1..Len(lines)
        /\ errors[a].message.line = errors[a].line

FirstChar(l) == lstrip(l)[1]
Blank(l) == \A j \in 1..Len(l) : IsSpace(l[j])
LastChar(l) == rstrip(l)[Len(rstrip(l))]

\* A list-marker line: a bullet -, *, + and whitespace, or digits, then . or )
\* and whitespace, after any indentation.
ListMarkerLine(l) ==
    LET t == lstrip(l)
    IN  \/ Len(t) >= 2 /\ t[1] \in {45, 42, 43} /\ IsSpace(t[2])
        \/ \E d \in 1..(Len(t) - 2) :
               /\ \A j \in 1..d : IsDigit(t[j])
               /\ t[d + 1] \in {46, 41}
               /\ IsSpace(t[d + 2])

PipeLine(l) == ~Blank(l) /\ FirstChar(l) = 124

FenceDelimiter(l) ==
    LET t == lstrip(l)
    IN  Len(t) >= 3 /\ t[1] = 96 /\ t[2] = 96 /\ t[3] = 96

\* Bold text and nothing else, with an optional colon after it.
BoldOnlyLine(l) ==
    LET t == strip(l)
        u == IF t # <<>> /\ t[Len(t)] = 58 THEN SubSeq(t, 1, Len(t) - 1) ELSE t
    IN  /\ Len(u) >= 5
        /\ u[1] = 42 /\ u[2] = 42 /\ u[Len(u) - 1] = 42 /\ u[Len(u)] = 42
        /\ \A j \in 3..(Len(u) - 2) : u[j] # 42

\* Number of fence lines before line n.
FencesBefore(ls, n) == Cardinality({ m \in 1..(n - 1) : FenceDelimiter(ls[m]) })
Odd(k) == k % 2 = 1

\* Line n is an ordinary line inside a fence.
InsideFence(ls, n) == ~FenceDelimiter(ls[n]) /\ Odd(FencesBefore(ls, n))

HasAny(l, S) == \E j \in 1..Len(l) : l[j] \in S
HasNonAscii(l) == \E j \in 1..Len(l) : l[j] > 127
HasNonPrintable(l) == \E j \in 1..Len(l) : l[j] \notin 32..126

\* The category the message names, in the order of the rule.
Category(l) ==
    IF HasAny(l, {9989, 10003}) THEN "checkmark"
    ELSE IF HasAny(l, {9500, 9474, 9492}) THEN "box-drawing"
    ELSE IF HasAny(l, {8594, 8592}) THEN "arrow"
    ELSE "Unicode character"

\* The diagnostics printed for the file at position k, and its success line.
ReportOf(k) ==
    LET Mine(p) == p.kind = "diag" /\ p.file = k
    IN  SelectSeq(stderr, Mine)
ErrorsReported(k) == [a \in 1..Len(ReportOf(k)) |->
                         Error(ReportOf(k)[a].n, ReportOf(k)[a].message)]
BannerPrinted(k) == \E m \in 1..Len(stderr) : stderr[m] = Printed("banner", k, 0, NoMessage)
SuccessPrinted(k) == \E m \in 1..Len(stdout) : stdout[m] = Printed("ok", k, 0, NoMessage)
NotFoundPrinted(k) == \E m \in 1..Len(stderr) : stderr[m] = Printed("not_found", k, 0, NoMessage)
LinesOf(k) == splitlines(files[k].text)

\* ------------------------------------------------------------------------
\* Properties
\* ------------------------------------------------------------------------
\* C1: with at least one path, main exits 0 exactly when every path exists
\* and its check produced no diagnostic; every missing path is reported and
\* every existing file, also one after a missing path, is linted and
\* reported with its diagnostics.
C1_ExitStatus ==
    (pc = "exit" /\ Len(files) >= 1) =>
        /\ status \in {0, 1}
        /\ (status = 0) <=>
               \A k \in 1..Len(files) :
                   files[k].exists /\ LintAlone(LinesOf(k)) = <<>>
        /\ \A k \in 1..Len(files) :
               IF files[k].exists
               THEN /\ ErrorsReported(k) = LintAlone(LinesOf(k))
                    /\ SuccessPrinted(k) <=> (LintAlone(LinesOf(k)) = <<>>)
                    /\ BannerPrinted(k) <=> (LintAlone(LinesOf(k)) # <<>>)
                    /\ ~NotFoundPrinted(k)
               ELSE NotFoundPrinted(k) /\ ~SuccessPrinted(k) /\ ~BannerPrinted(k)

\* A run that exited after a missing path followed by a file with diagnostics.
C1_Witness ==
    /\ pc = "exit"
    /\ Len(files) = 2
    /\ ~files[1].exists
    /\ files[2].exists
    /\ ErrorsReported(2) # <<>>
    /\ status = 1

Rank(rule) ==
    CASE rule = "list" -> 1
      [] rule = "table" -> 2
      [] rule = "header" -> 3
      [] rule = "code" -> 4

\* C2: the diagnostics are in rule-pass order list, table, header, code,
\* whatever their line numbers, and strictly increasing in line number
\* within one rule.
C2_RulePassOrder ==
    \A a, b \in 1..Len(errors) :
        a < b =>
            /\ Rank(errors[a].message.rule) <= Rank(errors[b].message.rule)
            /\ (errors[a].message.rule = errors[b].message.rule
                   => errors[a].line < errors[b].line)

\* A finished check where a later rule's diagnostic has the smaller line number.
C2_Witness ==
    /\ LintDone
    /\ \E a, b \in 1..Len(errors) :
           /\ a < b
           /\ errors[a].line > errors[b].line
           /\ errors[a].message.rule # errors[b].message.rule

\* The document of the end-to-end scenario: fence, a line with e acute,
\* fence, table row.
ScenarioDoc(ls) ==
    /\ Len(ls) = 4
    /\ FenceDelimiter(ls[1])
    /\ ~FenceDelimiter(ls[2]) /\ HasAny(ls[2], {233})
    /\ FenceDelimiter(ls[3])
    /\ PipeLine(ls[4])

\* C3 as stated: the scenario document yields exactly two diagnostics.
C3_TwoDiagnostics ==
    (LintDone /\ ScenarioDoc(lines)) => Len(errors) = 2

\* C3: the scenario document yields exactly one diagnostic, the code-block
\* diagnostic of the fenced line, named by the line's category, and none for
\* the table row after the closing fence.
C3_OneDiagnostic ==
    (LintDone /\ ScenarioDoc(lines)) =>
        /\ Len(errors) = 1
        /\ errors[1] = Error(2, Message("code", 2, Category(lines[2]), lines[2]))
        /\ \A a \in 1..Len(errors) : errors[a].line # 4

C3_Witness ==
    /\ LintDone
    /\ ScenarioDoc(lines)
    /\ ErrorsOf("code") # <<>>
    /\ ErrorsOf("table") = <<>>

ListOwed(ls, n) ==
    /\ ListMarkerLine(ls[n])
    /\ n > 1
    /\ ~Blank(ls[n - 1])
    /\ ~(FirstChar(ls[n - 1]) \in {45, 42, 43} \/ IsDigit(FirstChar(ls[n - 1])))
    /\ LastChar(ls[n - 1]) # 92

\* C5: the list rule emits exactly one diagnostic, with the line's number,
\* for every list-marker line after the first whose previous line is not
\* blank, does not begin with a bullet character or a digit and does not end
\* with a backslash; and none for any other line.
C5_ListRule ==
    LintDone =>
        /\ WellNumbered
        /\ \A n \in 1..Len(lines) :
               CountAt("list", n) = IF ListOwed(lines, n) THEN 1 ELSE 0

\* A finished check that flagged a list line right after a non-blank line.
C5_Witness ==
    /\ LintDone
    /\ Len(lines) = 2
    /\ ListMarkerLine(lines[2])
    /\ ~Blank(lines[1])
    /\ CountAt("list", 2) = 1

\* The table rule owes line n a diagnostic.
TableOwed(ls, n) ==
    /\ PipeLine(ls[n])
    /\ n > 1
    /\ ~Blank(ls[n - 1])
    /\ ~PipeLine(ls[n - 1])
    /\ LastChar(ls[n - 1]) # 92
    /\ ~FenceDelimiter(ls[n - 1])

\* C6: the table rule emits exactly one diagnostic for every pipe-led line
\* after the first whose previous line is not blank, not a pipe-led row,
\* does not end with a backslash and is not a fence line; and none otherwise.
C6_TableRule ==
    LintDone =>
        /\ WellNumbered
        /\ \A n \in 1..Len(lines) :
               CountAt("table", n) = IF TableOwed(lines, n) THEN 1 ELSE 0

\* A table row right after a fence line, not flagged.
C6_Witness ==
    /\ LintDone
    /\ Len(lines) = 2
    /\ FenceDelimiter(lines[1])
    /\ PipeLine(lines[2])
    /\ ErrorsOf("table") = <<>>

\* A two-line document that starts with a bold-only line.
BoldThen(ls) == Len(ls) = 2 /\ BoldOnlyLine(ls[1])

\* C7 as stated: bold-only line then list item gives exactly one diagnostic,
\* bold-only line then table row gives none.
C7_TableRowNoDiagnostics ==
    (LintDone /\ BoldThen(lines)) =>
        /\ ListMarkerLine(lines[2]) => Len(errors) = 1
        /\ PipeLine(lines[2]) => Len(errors) = 0

\* C7: bold-only line then list item gives exactly one diagnostic, the
\* header diagnostic of the bold line; bold-only line then table row gives
\* no header diagnostic, and exactly one diagnostic in all, the table
\* rule's for the row.
C7_HeaderRule ==
    (LintDone /\ BoldThen(lines)) =>
        /\ ListMarkerLine(lines[2]) =>
               errors = <<Error(1, Message("header", 1, "", strip(lines[1])))>>
        /\ PipeLine(lines[2]) =>
               /\ ErrorsOf("header") = <<>>
               /\ errors = <<Error(2, Message("table", 2, "", lines[2]))>>

\* A bold-only line followed by a table row, checked.
C7_Witness ==
    /\ LintDone
    /\ BoldThen(lines)
    /\ PipeLine(lines[2])
    /\ ErrorsOf("header") = <<>>

\* C8: every file's code-block scan starts outside a fence, and the
\* diagnostics of every file are those of the file checked alone.
C8_FenceStateReset ==
    /\ (pc = "unicode" /\ i = 1) => ~in_code_block
    /\ LintDone => errors = LintAlone(LinesOf(idx))

\* The previous file ended inside an open fence; the current file has a
\* non-ASCII line outside any fence and its check is finished.
C8_Witness ==
    /\ LintDone
    /\ idx >= 2
    /\ files[idx - 1].exists
    /\ Odd(FencesBefore(LinesOf(idx - 1), Len(LinesOf(idx - 1)) + 1))
    /\ in_code_block = FALSE
    /\ \E n \in 1..Len(lines) : HasNonAscii(lines[n]) /\ ~InsideFence(lines, n)
    /\ errors = <<>>

\* C9: during the scan the state is inside-fence exactly when an odd number
\* of fence lines came before; a fence line never gets a code-block
\* diagnostic; an ordinary line gets one only if an odd number of fence
\* lines precede it, and then whenever it holds a non-ASCII character.
C9_FenceToggle ==
    pc = "unicode" =>
        /\ in_code_block = Odd(FencesBefore(lines, i))
        /\ \A n \in 1..Len(lines) :
               /\ CountAt("code", n) >= 1 => (n < i /\ InsideFence(lines, n))
               /\ (n < i /\ InsideFence(lines, n) /\ HasNonAscii(lines[n]))
                      => CountAt("code", n) = 1

\* The same non-ASCII line inside a fence (flagged) and after it (not).
C9_Witness ==
    /\ LintDone
    /\ \E n, m \in 1..Len(lines) :
           /\ n < m
           /\ lines[n] = lines[m]
           /\ HasNonAscii(lines[n])
           /\ CountAt("code", n) = 1
           /\ CountAt("code", m) = 0
           /\ FencesBefore(lines, m) = 2

\* C10 as stated: a line scanned inside a fence gets one diagnostic exactly
\* when it holds a character outside the 7-bit printable range.
C10_NonPrintable ==
    LintDone =>
        \A n \in 1..Len(lines) :
            InsideFence(lines, n) =>
                CountAt("code", n) = IF HasNonPrintable(lines[n]) THEN 1 ELSE 0

\* C10: a line scanned inside a fence gets exactly one diagnostic when it
\* holds a character above code point 127 (the check marks, box-drawing
\* characters and arrows are such), none otherwise; the message names the
\* first matching category in the order checkmark, box-drawing, arrow,
\* Unicode character.
C10_FirstCategory ==
    LintDone =>
        \A n \in 1..Len(lines) :
            InsideFence(lines, n) =>
                /\ CountAt("code", n) = IF HasNonAscii(lines[n]) THEN 1 ELSE 0
                /\ \A a \in 1..Len(errors) :
                       (errors[a].message.rule = "code" /\ errors[a].line = n) =>
                           errors[a].message =
                               Message("code", n, Category(lines[n]), lines[n])

\* A fenced line that starts with an arrow and holds a check mark, reported
\* as checkmark.
C10_Witness ==
    /\ LintDone
    /\ \E n \in 1..Len(lines) :
           /\ InsideFence(lines, n)
           /\ HasAny(lines[n], {9989, 10003})
           /\ lines[n][1] \in {8594, 8592}
           /\ \E a \in 1..Len(errors) :
                  errors[a].line = n /\ errors[a].message.desc = "checkmark"

====
